---- MODULE Spec2Model ----
(***************************************************************************)
(* State-machine model of the recipe REST backend: the recipe viewset and  *)
(* the tag / ingredient viewsets of app/recipe/views.py with the           *)
(* serializers of app/recipe/serializers.py, and the user serializers of   *)
(* app/user/serializers.py.  One action per HTTP request handler; the      *)
(* response of the last request is kept in resp.                           *)
(***************************************************************************)
EXTENDS Integers, Sequences, FiniteSets, TLC

\* ---------------------------------------------------------------- bounds
\* Recipe rows ever inserted under Spec (auto-increment ids 1..MaxRecipes).
MaxRecipes == 3
\* Tag rows plus ingredient rows ever inserted under SpecAttr.
MaxAttrs == 3
\* Tag rows plus ingredient rows ever inserted under SpecNested.
MaxNestedRows == 2
\* Recipe rows ever inserted under SpecNested.
MaxNestedRecipes == 1
\* Recipe rows, and tag plus ingredient rows, ever inserted under SpecUpdate.
MaxUpdateRecipes == 2
MaxUpdateRows == 1
\* Recipe rows, and tag plus ingredient rows, ever inserted under SpecAccess.
MaxAccessRows == 1
\* User rows ever inserted under SpecUser.
MaxUsers == 2
\* Calls of check() that wait_for_db's counter tells apart (it stays at the
\* bound from there on).
MaxChecks == 8

\* ------------------------------------------------------- HTTP status codes
HTTP_200_OK == 200
HTTP_201_CREATED == 201
HTTP_204_NO_CONTENT == 204
HTTP_400_BAD_REQUEST == 400
HTTP_401_UNAUTHORIZED == 401
HTTP_404_NOT_FOUND == 404
HTTP_405_METHOD_NOT_ALLOWED == 405
HTTP_500_INTERNAL_SERVER_ERROR == 500

VARIABLES
    users,          \* user table: id -> [email, password, name]
    nextUserId,     \* next auto-increment id of the user table
    tokens,         \* ids of the users that hold an auth token
    recipes,        \* recipe table: id -> row
    nextRecipeId,   \* next auto-increment id of the recipe table
    attrs,          \* attrs[k]: the tag (k = "tags") / ingredient table: id -> [user, name]
    nextAttrId,     \* nextAttrId[k]: next auto-increment id of table k
    history,        \* history[id]: who created recipe id through the API, and who deleted it
    resp,           \* the last request and its response
    command,        \* the wait_for_db run and the database server it polls
    workers         \* workers[w]: the request server worker w is handling, and how far it is

vars == <<users, nextUserId, tokens, recipes, nextRecipeId, attrs, nextAttrId, history, resp,
          command, workers>>

\* The unauthenticated requester (request.user is AnonymousUser).
Anon == 0

\* The two related tables handled by the shared ViewSet base class.
Kinds == {"tags", "ingredients"}

\* ------------------------------------------------------------ small helpers
\* All sequences that enumerate the finite set S once each.
RECURSIVE Perms(_)
Perms(S) ==
    IF S = {} THEN {<<>>}
    ELSE UNION {{<<x>> \o p : p \in Perms(S \ {x})} : x \in S}

Range(s) == {s[i] : i \in DOMAIN s}

\* f with key k removed from its domain.
Drop(f, k) == [x \in DOMAIN f \ {k} |-> f[x]]

\* f extended / overwritten at key k.
Put(f, k, v) == [x \in DOMAIN f \cup {k} |-> IF x = k THEN v ELSE f[x]]

\* ------------------------------------------------------ requests, responses
NoPayload == [f \in {} |-> 0]

\* The record kept of a request and of the response it got.
\* The HTTP method the router maps to a viewset action.
HttpMethod(op) ==
    CASE op \in {"list", "retrieve"} -> "GET"
      [] op \in {"create", "token"} -> "POST"
      [] op = "update" -> "PUT"
      [] op = "partial_update" -> "PATCH"
      [] op = "destroy" -> "DELETE"
      [] OTHER -> "none"

Response(op, kind, cred, pk, payload, status, data, errors) ==
    [method |-> HttpMethod(op), op |-> op, kind |-> kind, cred |-> cred, pk |-> pk,
     payload |-> payload, status |-> status, data |-> data, errors |-> errors]

\* f restricted to the keys in S.
Restrict(f, S) == [x \in DOMAIN f \cap S |-> f[x]]

\* An update that builds the row anew from the validated data alone.
SetAttrsResetAbsent(row, validated) ==
    [f \in DOMAIN row |-> IF f \in DOMAIN validated THEN validated[f]
                          ELSE IF f \in Kinds THEN {} ELSE 0]

\* row with the validated attributes set (ModelSerializer.update: setattr per key).
SetAttrs(row, validated) ==
    [f \in DOMAIN row |-> IF f \in DOMAIN validated THEN validated[f] ELSE row[f]]

\* QuerySet.order_by('-<key>'): every enumeration of S that is non-increasing
\* in key (rows with equal keys come in an order the database chooses).
OrderByDesc(S, key(_)) ==
    {s \in Perms(S) : \A i, j \in DOMAIN s : i < j => key(s[i]) >= key(s[j])}

\* ------------------------------------------- authentication and permission
\* TokenAuthentication: cred is the user whose token the request presents
\* (Anon: no Authorization header); an unknown token authenticates nobody.
Authenticate(cred) == IF cred \in tokens /\ cred \in DOMAIN users THEN cred ELSE Anon

IsAuthenticatedOpen(user) == TRUE

\* permission_classes = [IsAuthenticated]
IsAuthenticated(user) == user # Anon

\* --------------------------------------------------------- recipe serializers
\* RecipeSerializer.Meta.fields
RecipeSerializerFields == {"id", "title", "time_minutes", "price", "link"}

\* RecipeDetailSerializer.Meta.fields
RecipeDetailSerializerFields == RecipeSerializerFields \cup {"description"}

\* RecipeSerializer.Meta.read_only_fields
RecipeReadOnlyFields == {"id"}

\* RecipeImageSerializer: the image of a recipe (id read-only, image required).
RecipeImageSerializerFields == {"id", "image"}

\* Model fields of Recipe without blank=True / default: required on create and PUT.
RecipeRequiredFields == {"title", "time_minutes", "price"}

\* The stored values of a recipe's image field.
NoImage == "none"
StoredImage == "uploads/recipe/image.jpg"

\* Upload contents: a decodable image and a payload that is no image.
ValidImage == "jpeg"
NotAnImage == "notanimage"

\* get_serializer_class without the branch for the list action.
get_serializer_class_no_list(action) ==
    IF action = "upload_image" THEN "RecipeImageSerializer"
    ELSE "RecipeDetailSerializer"

\* RecipeViewSet.get_serializer_class
get_serializer_class(action) ==
    IF action = "list" THEN "RecipeSerializer"
    ELSE IF action = "upload_image" THEN "RecipeImageSerializer"
    ELSE "RecipeDetailSerializer"

SerializerFields(cls) ==
    CASE cls = "RecipeSerializer" -> RecipeSerializerFields
      [] cls = "RecipeDetailSerializer" -> RecipeDetailSerializerFields
      [] cls = "RecipeImageSerializer" -> RecipeImageSerializerFields

SerializerRequired(cls) ==
    IF cls = "RecipeImageSerializer" THEN {"image"} ELSE RecipeRequiredFields

\* Serializer.to_representation of recipe row `row` with primary key id.
ToRepresentation(cls, id, row) ==
    [f \in SerializerFields(cls) |-> IF f = "id" THEN id ELSE row[f]]

\* validated_data of a serializer that declares the owner among its fields.
ValidatedDataWithUser(cls, payload) ==
    Restrict(payload, (SerializerFields(cls) \cup {"user"}) \ RecipeReadOnlyFields)

\* Serializer.validated_data: the writable declared fields present in the
\* payload; every other key of the payload is ignored.
ValidatedData(cls, payload) ==
    Restrict(payload, SerializerFields(cls) \ RecipeReadOnlyFields)

\* Serializer.errors: the fields that fail validation.
ValidationErrors(cls, payload, partial) ==
    LET missing == IF partial THEN {}
                   ELSE (SerializerRequired(cls) \cap SerializerFields(cls)) \ DOMAIN payload
        invalid == {f \in DOMAIN ValidatedData(cls, payload) :
                        f = "image" /\ payload[f] # ValidImage}
    IN  missing \cup invalid

\* Recipe.objects.create(**validated_data): blank text fields, no image,
\* empty many-to-many relations.
NewRecipe(validated) ==
    LET blank == [user |-> Anon, title |-> 0, time_minutes |-> 0, price |-> 0,
                  link |-> 0, description |-> 0, image |-> NoImage,
                  tags |-> {}, ingredients |-> {}]
    IN  SetAttrs(blank, validated)

\* ----------------------------------------------------------- RecipeViewSet
RecipeGetQuerysetAllUsers(user) ==
    OrderByDesc(DOMAIN recipes, LAMBDA id : id)

\* RecipeViewSet.get_queryset: queryset.filter(user=request.user).order_by('-id')
RecipeGetQueryset(user) ==
    OrderByDesc({id \in DOMAIN recipes : recipes[id].user = user}, LAMBDA id : id)

\* GenericAPIView.get_object over get_queryset: the visible row with that pk.
RecipeVisible(user, pk) == \E qs \in RecipeGetQueryset(user) : pk \in Range(qs)

\* RecipeViewSet.perform_create: serializer.save(user=self.request.user)
perform_create(validated, user) ==
    NewRecipe([f \in DOMAIN validated \cup {"user"} |->
                  IF f = "user" THEN user ELSE validated[f]])

dbRecipes == <<recipes, nextRecipeId, history>>
dbAttrs == <<attrs, nextAttrId>>
dbUsers == <<users, nextUserId, tokens>>

Unauthorized(op, kind, cred, pk, payload) ==
    /\ resp' = Response(op, kind, cred, pk, payload, HTTP_401_UNAUTHORIZED, <<>>, {})
    /\ UNCHANGED <<dbRecipes, dbAttrs, dbUsers>>

\* GET /recipe/recipes/
RecipeList(cred) ==
    LET user == Authenticate(cred) IN
    IF ~IsAuthenticated(user) THEN Unauthorized("list", "recipes", cred, 0, NoPayload)
    ELSE
        /\ \E qs \in RecipeGetQueryset(user) :
             resp' = Response("list", "recipes", cred, 0, NoPayload, HTTP_200_OK,
                        [i \in DOMAIN qs |->
                            ToRepresentation(get_serializer_class("list"), qs[i], recipes[qs[i]])],
                        {})
        /\ UNCHANGED <<dbRecipes, dbAttrs, dbUsers>>

\* GET /recipe/recipes/{pk}/
RecipeRetrieve(cred, pk) ==
    LET user == Authenticate(cred) IN
    IF ~IsAuthenticated(user) THEN Unauthorized("retrieve", "recipes", cred, pk, NoPayload)
    ELSE
        /\ resp' = IF ~RecipeVisible(user, pk)
                   THEN Response("retrieve", "recipes", cred, pk, NoPayload,
                                 HTTP_404_NOT_FOUND, <<>>, {})
                   ELSE Response("retrieve", "recipes", cred, pk, NoPayload, HTTP_200_OK,
                            <<ToRepresentation(get_serializer_class("retrieve"), pk, recipes[pk])>>,
                            {})
        /\ UNCHANGED <<dbRecipes, dbAttrs, dbUsers>>

\* POST /recipe/recipes/
RecipeCreate(cred, payload) ==
    LET user == Authenticate(cred)
        cls == get_serializer_class("create")
        errors == ValidationErrors(cls, payload, FALSE)
        id == nextRecipeId
        row == perform_create(ValidatedData(cls, payload), user)
    IN
    IF ~IsAuthenticated(user) THEN Unauthorized("create", "recipes", cred, 0, payload)
    ELSE IF errors # {} THEN
        /\ resp' = Response("create", "recipes", cred, 0, payload,
                            HTTP_400_BAD_REQUEST, <<>>, errors)
        /\ UNCHANGED <<dbRecipes, dbAttrs, dbUsers>>
    ELSE
        /\ recipes' = Put(recipes, id, row)
        /\ nextRecipeId' = nextRecipeId + 1
        /\ history' = Put(history, id, [creator |-> user, deleter |-> Anon])
        /\ resp' = Response("create", "recipes", cred, id, payload, HTTP_201_CREATED,
                            <<ToRepresentation(cls, id, row)>>, {})
        /\ UNCHANGED <<dbAttrs, dbUsers>>

\* PUT (partial = FALSE) / PATCH (partial = TRUE) /recipe/recipes/{pk}/
RecipeUpdate(cred, pk, payload, partial) ==
    LET user == Authenticate(cred)
        op == IF partial THEN "partial_update" ELSE "update"
        cls == get_serializer_class(op)
        errors == ValidationErrors(cls, payload, partial)
    IN
    IF ~IsAuthenticated(user) THEN Unauthorized(op, "recipes", cred, pk, payload)
    ELSE IF ~RecipeVisible(user, pk) THEN
        /\ resp' = Response(op, "recipes", cred, pk, payload, HTTP_404_NOT_FOUND, <<>>, {})
        /\ UNCHANGED <<dbRecipes, dbAttrs, dbUsers>>
    ELSE IF errors # {} THEN
        /\ resp' = Response(op, "recipes", cred, pk, payload,
                            HTTP_400_BAD_REQUEST, <<>>, errors)
        /\ UNCHANGED <<dbRecipes, dbAttrs, dbUsers>>
    ELSE
        LET row == SetAttrs(recipes[pk], ValidatedData(cls, payload)) IN
        /\ recipes' = [recipes EXCEPT ![pk] = row]
        /\ resp' = Response(op, "recipes", cred, pk, payload, HTTP_200_OK,
                            <<ToRepresentation(cls, pk, row)>>, {})
        /\ UNCHANGED <<nextRecipeId, history, dbAttrs, dbUsers>>

\* DELETE /recipe/recipes/{pk}/
RecipeDestroy(cred, pk) ==
    LET user == Authenticate(cred) IN
    IF ~IsAuthenticated(user) THEN Unauthorized("destroy", "recipes", cred, pk, NoPayload)
    ELSE IF ~RecipeVisible(user, pk) THEN
        /\ resp' = Response("destroy", "recipes", cred, pk, NoPayload,
                            HTTP_404_NOT_FOUND, <<>>, {})
        /\ UNCHANGED <<dbRecipes, dbAttrs, dbUsers>>
    ELSE
        /\ recipes' = Drop(recipes, pk)
        /\ history' = [history EXCEPT ![pk].deleter = user]
        /\ resp' = Response("destroy", "recipes", cred, pk, NoPayload,
                            HTTP_204_NO_CONTENT, <<>>, {})
        /\ UNCHANGED <<nextRecipeId, dbAttrs, dbUsers>>

\* @action(method=['POST'], detail=True, url_path='upload-image'): the keyword
\* the decorator reads is `methods`; left unset, the action is routed for GET.
UploadImageMethods == {"GET"}

\* <method> /recipe/recipes/{pk}/upload-image/
RecipeUploadImage(cred, method, pk, payload) ==
    LET user == Authenticate(cred)
        cls == get_serializer_class("upload_image")
        errors == ValidationErrors(cls, payload, FALSE)
    IN
    IF ~IsAuthenticated(user) THEN
        /\ resp' = [Response("upload_image", "recipes", cred, pk, payload,
                            HTTP_401_UNAUTHORIZED, <<>>, {}) EXCEPT !.method = method]
        /\ UNCHANGED <<dbRecipes, dbAttrs, dbUsers>>
    ELSE IF method \notin UploadImageMethods THEN
        /\ resp' = [Response("upload_image", "recipes", cred, pk, payload,
                            HTTP_405_METHOD_NOT_ALLOWED, <<>>, {})
                        EXCEPT !.method = method]
        /\ UNCHANGED <<dbRecipes, dbAttrs, dbUsers>>
    ELSE IF ~RecipeVisible(user, pk) THEN
        /\ resp' = [Response("upload_image", "recipes", cred, pk, payload,
                            HTTP_404_NOT_FOUND, <<>>, {})
                        EXCEPT !.method = method]
        /\ UNCHANGED <<dbRecipes, dbAttrs, dbUsers>>
    ELSE IF errors = {} THEN
        LET row == [recipes[pk] EXCEPT !.image = StoredImage] IN
        /\ recipes' = [recipes EXCEPT ![pk] = row]
        /\ resp' = [Response("upload_image", "recipes", cred, pk, payload, HTTP_200_OK,
                            <<ToRepresentation(cls, pk, row)>>, {})
                        EXCEPT !.method = method]
        /\ UNCHANGED <<nextRecipeId, history, dbAttrs, dbUsers>>
    ELSE
        \* Response(serializer.data, 400): the data of an invalid serializer is
        \* the submitted input, not serializer.errors.
        /\ resp' = [Response("upload_image", "recipes", cred, pk, payload,
                            HTTP_400_BAD_REQUEST, <<ValidatedData(cls, payload)>>, {})
                        EXCEPT !.method = method]
        /\ UNCHANGED <<dbRecipes, dbAttrs, dbUsers>>

\* ------------------------------------------------- tags and ingredients
\* TagSerializer / IngredientSerializer: id (read-only) and name.
AttrSerializerFields == {"id", "name"}

AttrToRepresentation(id, row) == [id |-> id, name |-> row.name]

\* Tag rows plus ingredient rows inserted so far.
AttrRowsInserted == (nextAttrId["tags"] - 1) + (nextAttrId["ingredients"] - 1)

\* The rows of table k attached to at least one recipe.
Assigned(k) == UNION {recipes[r][k] : r \in DOMAIN recipes}

ViewSetGetQuerysetAllUsers(k, user, assigned_only) ==
    OrderByDesc(DOMAIN attrs[k], LAMBDA id : attrs[k][id].name)

ViewSetGetQuerysetAscending(k, user, assigned_only) ==
    {s \in Perms({id \in DOMAIN attrs[k] : attrs[k][id].user = user}) :
        \A i, j \in DOMAIN s : i < j => attrs[k][s[i]].name <= attrs[k][s[j]].name}

\* ViewSet.get_queryset: queryset.filter(user=request.user).order_by('-name');
\* the assigned_only query parameter is not read.
ViewSetGetQueryset(k, user, assigned_only) ==
    OrderByDesc({id \in DOMAIN attrs[k] : attrs[k][id].user = user},
                LAMBDA id : attrs[k][id].name)

AttrVisible(k, user, pk) ==
    \E qs \in ViewSetGetQueryset(k, user, 0) : pk \in Range(qs)

\* GET /recipe/<k>/?assigned_only=<assigned_only>   (ListModelMixin)
AttrList(k, cred, assigned_only) ==
    LET user == Authenticate(cred)
        query == [assigned_only |-> assigned_only]
    IN
    IF ~IsAuthenticated(user) THEN Unauthorized("list", k, cred, 0, query)
    ELSE
        /\ \E qs \in ViewSetGetQueryset(k, user, assigned_only) :
             resp' = Response("list", k, cred, 0, query, HTTP_200_OK,
                        [i \in DOMAIN qs |-> AttrToRepresentation(qs[i], attrs[k][qs[i]])], {})
        /\ UNCHANGED <<dbRecipes, dbAttrs, dbUsers>>

\* The detail route: the mixins of ViewSet give it update, partial_update and
\* destroy; the list route: list.
ViewSetActions == {"list", "update", "partial_update", "destroy"}

\* The viewset as it would be with CreateModelMixin among its bases.
AttrWithCreateModelMixin(k, cred, op, pk, payload) ==
    LET user == Authenticate(cred) IN
    /\ op \in {"retrieve", "create"}
    /\ IF ~IsAuthenticated(user) THEN Unauthorized(op, k, cred, pk, payload)
       ELSE IF op = "create" THEN
            /\ attrs' = [attrs EXCEPT ![k] = Put(@, nextAttrId[k],
                                                  [user |-> user, name |-> payload.name])]
            /\ nextAttrId' = [nextAttrId EXCEPT ![k] = @ + 1]
            /\ resp' = Response(op, k, cred, nextAttrId[k], payload, HTTP_201_CREATED,
                                <<[id |-> nextAttrId[k], name |-> payload.name]>>, {})
            /\ UNCHANGED <<dbRecipes, dbUsers>>
       ELSE /\ resp' = Response(op, k, cred, pk, payload,
                                HTTP_405_METHOD_NOT_ALLOWED, <<>>, {})
            /\ UNCHANGED <<dbRecipes, dbAttrs, dbUsers>>

\* GET /recipe/<k>/{pk}/ (op = "retrieve"), POST /recipe/<k>/ (op = "create"):
\* the viewset has no such action.
AttrNoSuchAction(k, cred, op, pk, payload) ==
    LET user == Authenticate(cred) IN
    /\ op \in {"retrieve", "create"}
    /\ op = "create" => pk = 0
    /\ op = "retrieve" => pk # 0 /\ payload = NoPayload
    /\ IF ~IsAuthenticated(user) THEN Unauthorized(op, k, cred, pk, payload)
       ELSE /\ op \notin ViewSetActions
            /\ resp' = Response(op, k, cred, pk, payload,
                                HTTP_405_METHOD_NOT_ALLOWED, <<>>, {})
            /\ UNCHANGED <<dbRecipes, dbAttrs, dbUsers>>

\* The update applied to the whole queryset of the requester instead of the
\* addressed row.
AttrUpdateWholeQueryset(k, cred, pk, payload, partial) ==
    LET user == Authenticate(cred)
        op == IF partial THEN "partial_update" ELSE "update"
        validated == Restrict(payload, AttrSerializerFields \ {"id"})
        errors == IF partial THEN {} ELSE {"name"} \ DOMAIN payload
    IN
    IF ~IsAuthenticated(user) THEN Unauthorized(op, k, cred, pk, payload)
    ELSE IF ~AttrVisible(k, user, pk) THEN
        /\ resp' = Response(op, k, cred, pk, payload, HTTP_404_NOT_FOUND, <<>>, {})
        /\ UNCHANGED <<dbRecipes, dbAttrs, dbUsers>>
    ELSE IF errors # {} THEN
        /\ resp' = Response(op, k, cred, pk, payload, HTTP_400_BAD_REQUEST, <<>>, errors)
        /\ UNCHANGED <<dbRecipes, dbAttrs, dbUsers>>
    ELSE
        /\ attrs' = [attrs EXCEPT ![k] =
                        [id \in DOMAIN @ |-> IF @[id].user = user
                                             THEN SetAttrs(@[id], validated) ELSE @[id]]]
        /\ resp' = Response(op, k, cred, pk, payload, HTTP_200_OK,
                            <<AttrToRepresentation(pk, SetAttrs(attrs[k][pk], validated))>>, {})
        /\ UNCHANGED <<nextAttrId, dbRecipes, dbUsers>>

\* PUT (partial = FALSE) / PATCH (partial = TRUE) /recipe/<k>/{pk}/   (UpdateModelMixin)
AttrUpdate(k, cred, pk, payload, partial) ==
    LET user == Authenticate(cred)
        op == IF partial THEN "partial_update" ELSE "update"
        validated == Restrict(payload, AttrSerializerFields \ {"id"})
        errors == IF partial THEN {} ELSE {"name"} \ DOMAIN payload
    IN
    IF ~IsAuthenticated(user) THEN Unauthorized(op, k, cred, pk, payload)
    ELSE IF ~AttrVisible(k, user, pk) THEN
        /\ resp' = Response(op, k, cred, pk, payload, HTTP_404_NOT_FOUND, <<>>, {})
        /\ UNCHANGED <<dbRecipes, dbAttrs, dbUsers>>
    ELSE IF errors # {} THEN
        /\ resp' = Response(op, k, cred, pk, payload, HTTP_400_BAD_REQUEST, <<>>, errors)
        /\ UNCHANGED <<dbRecipes, dbAttrs, dbUsers>>
    ELSE
        LET row == SetAttrs(attrs[k][pk], validated) IN
        /\ attrs' = [attrs EXCEPT ![k][pk] = row]
        /\ resp' = Response(op, k, cred, pk, payload, HTTP_200_OK,
                            <<AttrToRepresentation(pk, row)>>, {})
        /\ UNCHANGED <<nextAttrId, dbRecipes, dbUsers>>

\* DELETE /recipe/<k>/{pk}/   (DestroyModelMixin); the rows of the
\* many-to-many relation that name the deleted row go with it.
AttrDestroy(k, cred, pk) ==
    LET user == Authenticate(cred) IN
    IF ~IsAuthenticated(user) THEN Unauthorized("destroy", k, cred, pk, NoPayload)
    ELSE IF ~AttrVisible(k, user, pk) THEN
        /\ resp' = Response("destroy", k, cred, pk, NoPayload, HTTP_404_NOT_FOUND, <<>>, {})
        /\ UNCHANGED <<dbRecipes, dbAttrs, dbUsers>>
    ELSE
        /\ attrs' = [attrs EXCEPT ![k] = Drop(@, pk)]
        /\ recipes' = [r \in DOMAIN recipes |-> [recipes[r] EXCEPT ![k] = @ \ {pk}]]
        /\ resp' = Response("destroy", k, cred, pk, NoPayload, HTTP_204_NO_CONTENT, <<>>, {})
        /\ UNCHANGED <<nextAttrId, nextRecipeId, history, dbUsers>>

\* ------------------------------------------------------------- model layer
\* No request is being answered (the row was written through the model layer).
NoResponse == Response("none", "none", Anon, 0, NoPayload, 0, <<>>, {})

\* Tag.objects.create(user=u, name=name) / Ingredient.objects.create(...)
AttrObjectsCreate(k, u, name) ==
    /\ u \in DOMAIN users
    /\ attrs' = [attrs EXCEPT ![k] = Put(@, nextAttrId[k], [user |-> u, name |-> name])]
    /\ nextAttrId' = [nextAttrId EXCEPT ![k] = @ + 1]
    /\ resp' = NoResponse
    /\ UNCHANGED <<dbRecipes, dbUsers>>

\* recipe.tags.add(tag) / recipe.ingredients.add(ingredient), both of one user
RecipeAttrsAdd(k, r, a) ==
    /\ r \in DOMAIN recipes
    /\ a \in DOMAIN attrs[k]
    /\ attrs[k][a].user = recipes[r].user
    /\ a \notin recipes[r][k]
    /\ recipes' = [recipes EXCEPT ![r][k] = @ \cup {a}]
    /\ resp' = NoResponse
    /\ UNCHANGED <<nextRecipeId, history, dbAttrs, dbUsers>>

\* -------------------------------------------------------------------- users
\* str.lower() on the characters the model's e-mail addresses are made of.
LowerChar(c) ==
    CASE c = "A" -> "a"
      [] c = "B" -> "b"
      [] c = "X" -> "x"
      [] OTHER -> c

Lower(s) == [i \in DOMAIN s |-> LowerChar(s[i])]

\* The address local@domain as the sequence of its characters.
Email(local, domain) == local \o <<"@">> \o domain

\* BaseUserManager.normalize_email: email.rsplit('@', 1), then
\* email_name + '@' + domain_part.lower(); an address without '@' is kept.
normalize_email(email) ==
    LET ats == {i \in DOMAIN email : email[i] = "@"} IN
    IF ats = {} THEN email
    ELSE LET at == CHOOSE i \in ats : \A j \in ats : j <= i
             email_name == SubSeq(email, 1, at - 1)
             domain_part == SubSeq(email, at + 1, Len(email))
         IN  email_name \o <<"@">> \o Lower(domain_part)

\* The password hasher and its check.
make_password(password) == <<"pbkdf2_sha256", password>>

check_password(password, encoded) == encoded = make_password(password)

\* UserManager.create_user(email, password, name): the row it saves.
create_user(validated) ==
    [email |-> normalize_email(validated.email),
     password |-> make_password(validated.password),
     name |-> validated.name]

\* UserSerializer.Meta.fields
UserSerializerFields == {"email", "password", "name"}

\* UserSerializer.Meta.extra_kwargs['password']['min_length']
MinPasswordLength == 5

\* UserSerializer.Meta.extra_kwargs['password']['write_only']
UserWriteOnlyFields == {"password"}

UserToRepresentation(row) ==
    [f \in UserSerializerFields \ UserWriteOnlyFields |-> row[f]]

\* UserSerializer.errors for a payload, `instance` the row being updated
\* (Anon on create): the unique validator of email looks the submitted
\* address up as it is, among the other rows.
UserValidationErrors(payload, instance, partial) ==
    LET data == Restrict(payload, UserSerializerFields)
        missing == IF partial THEN {} ELSE UserSerializerFields \ DOMAIN data
        taken == {f \in DOMAIN data : f = "email" /\
                     \E u \in DOMAIN users \ {instance} : users[u].email = data[f]}
        short == {f \in DOMAIN data : f = "password" /\ Len(data[f]) < MinPasswordLength}
    IN  missing \cup taken \cup short

\* Registration with create() saving the validated data as submitted.
UserCreateAsSubmitted(payload) ==
    LET errors == UserValidationErrors(payload, Anon, FALSE)
        validated == Restrict(payload, UserSerializerFields)
        row == [create_user(validated) EXCEPT !.email = validated.email]
        id == nextUserId
    IN
    IF errors # {} THEN
        /\ resp' = Response("create", "user", Anon, 0, payload,
                            HTTP_400_BAD_REQUEST, <<>>, errors)
        /\ UNCHANGED <<dbRecipes, dbAttrs, dbUsers>>
    ELSE
        /\ users' = Put(users, id, row)
        /\ nextUserId' = nextUserId + 1
        /\ resp' = Response("create", "user", Anon, id, payload, HTTP_201_CREATED,
                            <<UserToRepresentation(row)>>, {})
        /\ UNCHANGED <<tokens, dbRecipes, dbAttrs>>

\* POST /user/create/: UserSerializer.create through the registration view.
\* The table's unique constraint on email rejects a row whose normalized
\* address is already stored; nothing handles that error.
UserCreate(payload) ==
    LET errors == UserValidationErrors(payload, Anon, FALSE)
        row == create_user(Restrict(payload, UserSerializerFields))
        id == nextUserId
    IN
    IF errors # {} THEN
        /\ resp' = Response("create", "user", Anon, 0, payload,
                            HTTP_400_BAD_REQUEST, <<>>, errors)
        /\ UNCHANGED <<dbRecipes, dbAttrs, dbUsers>>
    ELSE IF \E u \in DOMAIN users : users[u].email = row.email THEN
        /\ resp' = Response("create", "user", Anon, 0, payload,
                            HTTP_500_INTERNAL_SERVER_ERROR, <<>>, {})
        /\ UNCHANGED <<dbRecipes, dbAttrs, dbUsers>>
    ELSE
        /\ users' = Put(users, id, row)
        /\ nextUserId' = nextUserId + 1
        /\ resp' = Response("create", "user", Anon, id, payload, HTTP_201_CREATED,
                            <<UserToRepresentation(row)>>, {})
        /\ UNCHANGED <<tokens, dbRecipes, dbAttrs>>

\* authenticate without the password check.
authenticateAnyPassword(email, password) ==
    LET found == {u \in DOMAIN users : users[u].email = email}
    IN  IF found = {} THEN Anon ELSE CHOOSE u \in found : TRUE

\* django.contrib.auth.authenticate(username=email, password=password): the
\* user stored under exactly that address whose password checks, or Anon.
authenticate(email, password) ==
    LET found == {u \in DOMAIN users :
                     users[u].email = email /\ check_password(password, users[u].password)}
    IN  IF found = {} THEN Anon ELSE CHOOSE u \in found : TRUE

\* AuthTokenSerializer field validation: both fields required, not blank.
AuthTokenFieldErrors(payload) ==
    {f \in {"password"} : payload[f] = ""}

\* POST /user/token/: AuthTokenSerializer.validate, then the token of the user.
TokenCreate(payload) ==
    LET errors == AuthTokenFieldErrors(payload)
        user == authenticate(payload.email, payload.password)
    IN
    IF errors # {} THEN
        /\ resp' = Response("token", "user", Anon, 0, payload,
                            HTTP_400_BAD_REQUEST, <<>>, errors)
        /\ UNCHANGED <<dbRecipes, dbAttrs, dbUsers>>
    ELSE IF user = Anon THEN
        /\ resp' = Response("token", "user", Anon, 0, payload,
                            HTTP_400_BAD_REQUEST, <<>>, {"non_field_errors"})
        /\ UNCHANGED <<dbRecipes, dbAttrs, dbUsers>>
    ELSE
        /\ tokens' = tokens \cup {user}
        /\ resp' = Response("token", "user", Anon, user, payload, HTTP_200_OK,
                            <<[token |-> user]>>, {})
        /\ UNCHANGED <<users, nextUserId, dbRecipes, dbAttrs>>

\* GET /user/me/
MeRetrieve(cred) ==
    LET user == Authenticate(cred) IN
    IF ~IsAuthenticated(user) THEN Unauthorized("retrieve", "me", cred, 0, NoPayload)
    ELSE
        /\ resp' = Response("retrieve", "me", cred, user, NoPayload, HTTP_200_OK,
                            <<UserToRepresentation(users[user])>>, {})
        /\ UNCHANGED <<dbRecipes, dbAttrs, dbUsers>>

\* update() without the override: the password set like any other field.
UserSerializerUpdateAllFields(row, validated) == SetAttrs(row, validated)

\* UserSerializer.update: the password is popped and set hashed when given,
\* the other validated fields are set as they are.
UserSerializerUpdate(row, validated) ==
    LET rest == Restrict(validated, DOMAIN validated \ {"password"})
        user == SetAttrs(row, rest)
    IN  IF "password" \in DOMAIN validated /\ validated.password # ""
        THEN [user EXCEPT !.password = make_password(validated.password)]
        ELSE user

\* PUT (partial = FALSE) / PATCH (partial = TRUE) /user/me/
MeUpdate(cred, payload, partial) ==
    LET user == Authenticate(cred)
        op == IF partial THEN "partial_update" ELSE "update"
        errors == UserValidationErrors(payload, user, partial)
    IN
    IF ~IsAuthenticated(user) THEN Unauthorized(op, "me", cred, 0, payload)
    ELSE IF errors # {} THEN
        /\ resp' = Response(op, "me", cred, user, payload, HTTP_400_BAD_REQUEST, <<>>, errors)
        /\ UNCHANGED <<dbRecipes, dbAttrs, dbUsers>>
    ELSE
        LET row == UserSerializerUpdate(users[user], Restrict(payload, UserSerializerFields)) IN
        /\ users' = [users EXCEPT ![user] = row]
        /\ resp' = Response(op, "me", cred, user, payload, HTTP_200_OK,
                            <<UserToRepresentation(row)>>, {})
        /\ UNCHANGED <<nextUserId, tokens, dbRecipes, dbAttrs>>

\* POST /user/me/: the view retrieves and updates only.
MePost(cred, payload) ==
    LET user == Authenticate(cred) IN
    IF ~IsAuthenticated(user) THEN Unauthorized("create", "me", cred, 0, payload)
    ELSE
        /\ resp' = Response("create", "me", cred, user, payload,
                            HTTP_405_METHOD_NOT_ALLOWED, <<>>, {})
        /\ UNCHANGED <<dbRecipes, dbAttrs, dbUsers>>

\* ------------------------------------------------------------ request inputs
\* The users of the recipe API: a@x and b@x, each holding a token.
SeedUsers ==
    [u \in {1, 2} |->
        create_user([email |-> Email(IF u = 1 THEN <<"a">> ELSE <<"b">>, <<"x">>),
                     password |-> "secret", name |-> 1])]

\* Who a request presents itself as: nobody, or the holder of a token.
Creds == {Anon} \cup DOMAIN SeedUsers

\* Tag / ingredient names, ordered as the database collates them.
Names == {1, 2}

FullRecipe == [title |-> 1, time_minutes |-> 1, price |-> 1]

\* Bodies of recipe create / update requests: complete and partial ones, and
\* one that names an id and an owner.
RecipePayloads ==
    { FullRecipe,
      [id |-> 3, title |-> 2, time_minutes |-> 1, price |-> 1, user |-> 1],
      [title |-> 2] }

\* Bodies that list tag and ingredient names, and one that lists none and
\* names an owner.
NestedPayloads ==
    { [title |-> 1, time_minutes |-> 1, price |-> 1, tags |-> <<2, 1>>, ingredients |-> <<1>>],
      [tags |-> <<1>>],
      [ingredients |-> <<2>>],
      [tags |-> <<>>, ingredients |-> <<>>],
      [user |-> 2] }

\* Update payloads: a full recipe with nested lists, scalar fields together
\* with an owner, and empty nested lists.
UpdatePayloads ==
    { [title |-> 1, time_minutes |-> 1, price |-> 1, tags |-> <<2, 1>>, ingredients |-> <<1>>],
      [title |-> 2, user |-> 2],
      [tags |-> <<>>, ingredients |-> <<>>] }

AccessPayloads == {FullRecipe, [title |-> 2, user |-> 1]}

AttrPayloads == {[name |-> 2], NoPayload}

ImagePayloads == {[image |-> ValidImage], [image |-> NotAnImage]}

HttpMethods == {"GET", "POST"}

EmptyTable == [x \in {} |-> 0]

\* The client reads the response; it sends its next request after that
\* (requests are served one at a time).
ClientReceives ==
    /\ resp # NoResponse
    /\ resp' = NoResponse
    /\ UNCHANGED <<dbRecipes, dbAttrs, dbUsers, command, workers>>

Idle == resp = NoResponse

\* ------------------------------------------------ the wait_for_db command
\* The command as the startup script leaves it before the server takes
\* requests: one check() of the 'default' database succeeded.
CommandDone ==
    [server |-> "up", pc |-> "done", db_up |-> TRUE, checks |-> 1,
     databases |-> {"default"}, error |-> "none"]

\* The command at the top of handle(): db_up = False, nothing checked yet.
CommandStart(server) ==
    [server |-> server, pc |-> "check", db_up |-> FALSE, checks |-> 0,
     databases |-> {}, error |-> "none"]

\* The states of the database server: not accepting connections (check()
\* raises Psycopg2Error), accepting but not ready (OperationalError), ready.
ServerStates == {"down", "starting", "up"}

\* What check(databases=['default']) raises against the server (command.error
\* keeps the last error raised).
CheckError(server) ==
    CASE server = "down" -> "Psycopg2Error"
      [] server = "starting" -> "OperationalError"
      [] OTHER -> "none"

\* The command answering every error by finishing.
WaitCheckOnce ==
    /\ command.pc = "check"
    /\ command' = [command EXCEPT !.checks = IF @ < MaxChecks THEN @ + 1 ELSE @,
                                   !.databases = @ \cup {"default"},
                                   !.error = IF CheckError(command.server) = "none" THEN @
                                             ELSE CheckError(command.server),
                                   !.db_up = CheckError(command.server) = "none",
                                   !.pc = "done"]
    /\ UNCHANGED <<dbRecipes, dbAttrs, dbUsers, resp, workers>>

\* while db_up is False: try: self.check(databases=['default']); db_up = True
\* except (Psycopg2Error, OperationalError): sleep.
WaitCheck ==
    /\ command.pc = "check"
    /\ LET error == CheckError(command.server) IN
       command' = [command EXCEPT !.checks = IF @ < MaxChecks THEN @ + 1 ELSE @,
                                  !.databases = @ \cup {"default"},
                                  !.error = IF error = "none" THEN @ ELSE error,
                                  !.db_up = error = "none",
                                  !.pc = IF error = "none" THEN "done" ELSE "sleep"]
    /\ UNCHANGED <<dbRecipes, dbAttrs, dbUsers, resp, workers>>

\* time.sleep(1), then the loop tests db_up again.
WaitSleep ==
    /\ command.pc = "sleep"
    /\ command' = [command EXCEPT !.pc = "check"]
    /\ UNCHANGED <<dbRecipes, dbAttrs, dbUsers, resp, workers>>

\* The database server starts, becomes ready, or goes down.
ServerChanges(server) ==
    /\ server # command.server
    /\ command' = [command EXCEPT !.server = server]
    /\ UNCHANGED <<dbRecipes, dbAttrs, dbUsers, resp, workers>>

\* The server is up (the startup command has finished) and the client has
\* no request in flight.
Serving == Idle /\ UNCHANGED <<command, workers>>

\* --------------------------------------------- requests served concurrently
\* The server's workers; each handles one request at a time, step by step.
Workers == {1, 2}

\* A worker between requests.
WorkerIdle == [pc |-> "idle", user |-> Anon, payload |-> NoPayload, pk |-> 0, status |-> 0]

\* create(): worker w takes a recipe POST and validates it
\* (serializer.is_valid); an invalid one is answered at once.
WorkerAccept(w, cred, payload) ==
    LET user == Authenticate(cred)
        cls == get_serializer_class("create")
        errors == ValidationErrors(cls, payload, FALSE)
    IN
    /\ workers[w].pc = "idle"
    /\ IsAuthenticated(user)
    /\ IF errors # {} THEN
            /\ workers' = [workers EXCEPT ![w] = [pc |-> "done", user |-> user, payload |-> payload,
                                                  pk |-> 0, status |-> HTTP_400_BAD_REQUEST]]
            /\ resp' = Response("create", "recipes", cred, 0, payload,
                                HTTP_400_BAD_REQUEST, <<>>, errors)
       ELSE /\ workers' = [workers EXCEPT ![w] = [pc |-> "perform_create", user |-> user,
                                                  payload |-> payload, pk |-> 0, status |-> 0]]
            /\ UNCHANGED resp
    /\ UNCHANGED <<dbRecipes, dbAttrs, dbUsers, command>>

\* perform_create(): serializer.save(user=request.user) inserts the recipe.
WorkerPerformCreate(w) ==
    LET cls == get_serializer_class("create")
        id == nextRecipeId
        row == perform_create(ValidatedData(cls, workers[w].payload), workers[w].user)
    IN
    /\ workers[w].pc = "perform_create"
    /\ recipes' = Put(recipes, id, row)
    /\ nextRecipeId' = nextRecipeId + 1
    /\ history' = Put(history, id, [creator |-> workers[w].user, deleter |-> Anon])
    /\ workers' = [workers EXCEPT ![w].pc = "respond", ![w].pk = id]
    /\ UNCHANGED <<dbAttrs, dbUsers, resp, command>>

\* Response(serializer.data, status=201): the worker is done with the request.
WorkerRespond(w) ==
    LET cls == get_serializer_class("create")
        id == workers[w].pk
    IN
    /\ workers[w].pc = "respond"
    /\ resp' = Response("create", "recipes", workers[w].user, id, workers[w].payload,
                        HTTP_201_CREATED, <<ToRepresentation(cls, id, recipes[id])>>, {})
    /\ workers' = [workers EXCEPT ![w].pc = "done", ![w].status = HTTP_201_CREATED]
    /\ UNCHANGED <<dbRecipes, dbAttrs, dbUsers, command>>

\* --------------------------------------------------- the recipe endpoints
Init ==
    /\ users = SeedUsers
    /\ nextUserId = 3
    /\ tokens = DOMAIN SeedUsers
    /\ recipes = EmptyTable
    /\ nextRecipeId = 1
    /\ attrs = [k \in Kinds |-> EmptyTable]
    /\ nextAttrId = [k \in Kinds |-> 1]
    /\ history = EmptyTable
    /\ resp = NoResponse
    /\ command = CommandDone
    /\ workers = [w \in Workers |-> WorkerIdle]

Next ==
    \/ ClientReceives
    \/ Serving /\ \E cred \in Creds : RecipeList(cred)
    \/ Serving /\ \E cred \in Creds, pk \in 1..MaxRecipes : RecipeRetrieve(cred, pk)
    \/ Serving /\ nextRecipeId <= MaxRecipes
            /\ \E cred \in Creds, payload \in RecipePayloads : RecipeCreate(cred, payload)
    \/ Serving /\ \E cred \in Creds, pk \in 1..MaxRecipes, payload \in RecipePayloads,
                  partial \in BOOLEAN :
            RecipeUpdate(cred, pk, payload, partial)
    \/ Serving /\ \E cred \in Creds, pk \in 1..MaxRecipes : RecipeDestroy(cred, pk)
    \/ Serving /\ \E cred \in Creds, method \in HttpMethods, pk \in 1..MaxRecipes,
                  payload \in ImagePayloads :
            RecipeUploadImage(cred, method, pk, payload)

Spec == Init /\ [][Next]_vars

\* ------------------------------------- every endpoint, every kind of requester
NextAccess ==
    \/ ClientReceives
    \/ Serving /\ \E k \in Kinds, cred \in Creds : AttrList(k, cred, 0)
    \/ Serving /\ \E k \in Kinds, cred \in Creds, pk \in 1..MaxAccessRows :
            AttrNoSuchAction(k, cred, "retrieve", pk, NoPayload)
    \/ Serving /\ \E k \in Kinds, cred \in Creds :
            AttrNoSuchAction(k, cred, "create", 0, [name |-> 2])
    \/ Serving /\ \E k \in Kinds, cred \in Creds, pk \in 1..MaxAccessRows, partial \in BOOLEAN :
            AttrUpdate(k, cred, pk, [name |-> 2], partial)
    \/ Serving /\ \E k \in Kinds, cred \in Creds, pk \in 1..MaxAccessRows : AttrDestroy(k, cred, pk)
    \/ Serving /\ AttrRowsInserted < MaxAccessRows
            /\ \E k \in Kinds, u \in DOMAIN SeedUsers : AttrObjectsCreate(k, u, 1)
    \/ Serving /\ \E cred \in Creds : RecipeList(cred)
    \/ Serving /\ \E cred \in Creds, pk \in 1..MaxAccessRows : RecipeRetrieve(cred, pk)
    \/ Serving /\ nextRecipeId <= MaxAccessRows
            /\ \E cred \in Creds : RecipeCreate(cred, FullRecipe)
    \/ Serving /\ \E cred \in Creds, pk \in 1..MaxAccessRows, payload \in AccessPayloads,
                  partial \in BOOLEAN :
            RecipeUpdate(cred, pk, payload, partial)
    \/ Serving /\ \E cred \in Creds, pk \in 1..MaxAccessRows : RecipeDestroy(cred, pk)
    \/ Serving /\ \E cred \in Creds, method \in HttpMethods, pk \in 1..MaxAccessRows :
            RecipeUploadImage(cred, method, pk, [image |-> ValidImage])
    \/ Serving /\ \E cred \in Creds : MeRetrieve(cred)
    \/ Serving /\ \E cred \in Creds : MeUpdate(cred, [name |-> SeedUsers[1].name], TRUE)
    \/ Serving /\ \E cred \in Creds : MePost(cred, NoPayload)

SpecAccess == Init /\ [][NextAccess]_vars

\* ---------------------------------------- the tag and ingredient endpoints
NextAttr ==
    \/ ClientReceives
    \/ Serving /\ AttrRowsInserted < MaxAttrs
            /\ \E k \in Kinds, u \in DOMAIN SeedUsers, name \in Names : AttrObjectsCreate(k, u, name)
    \/ Serving /\ \E k \in Kinds, cred \in DOMAIN SeedUsers : AttrList(k, cred, 0)
    \/ Serving /\ \E k \in Kinds, cred \in DOMAIN SeedUsers, pk \in 1..MaxAttrs,
                  payload \in AttrPayloads, partial \in BOOLEAN :
            AttrUpdate(k, cred, pk, payload, partial)
    \/ Serving /\ \E k \in Kinds, cred \in DOMAIN SeedUsers, pk \in 1..MaxAttrs :
            AttrDestroy(k, cred, pk)

SpecAttr == Init /\ [][NextAttr]_vars

\* ------------------------- recipes with their tags and ingredients
NextNested ==
    \/ ClientReceives
    \/ Serving /\ AttrRowsInserted < MaxNestedRows
            /\ \E k \in Kinds, u \in DOMAIN SeedUsers, name \in Names : AttrObjectsCreate(k, u, name)
    \/ Serving /\ \E k \in Kinds, r \in 1..MaxNestedRecipes, a \in 1..MaxNestedRows :
            RecipeAttrsAdd(k, r, a)
    \/ Serving /\ \E k \in Kinds, cred \in DOMAIN SeedUsers, assigned_only \in {0, 1} :
            AttrList(k, cred, assigned_only)
    \/ Serving /\ \E k \in Kinds, cred \in DOMAIN SeedUsers, pk \in 1..MaxNestedRows :
            AttrUpdate(k, cred, pk, [name |-> 2], TRUE)
    \/ Serving /\ \E k \in Kinds, cred \in DOMAIN SeedUsers, pk \in 1..MaxNestedRows :
            AttrDestroy(k, cred, pk)
    \/ Serving /\ nextRecipeId <= MaxNestedRecipes
            /\ \E cred \in DOMAIN SeedUsers, payload \in NestedPayloads : RecipeCreate(cred, payload)
    \/ Serving /\ \E cred \in DOMAIN SeedUsers, pk \in 1..MaxNestedRecipes, payload \in NestedPayloads :
            RecipeUpdate(cred, pk, payload, TRUE)

SpecNested == Init /\ [][NextNested]_vars

\* ------------------------------------- PUT and PATCH on recipes with tags
NextUpdate ==
    \/ ClientReceives
    \/ Serving /\ AttrRowsInserted < MaxUpdateRows
            /\ \E k \in Kinds, u \in DOMAIN SeedUsers, name \in Names : AttrObjectsCreate(k, u, name)
    \/ Serving /\ \E k \in Kinds, r \in 1..MaxUpdateRecipes, a \in 1..MaxUpdateRows :
            RecipeAttrsAdd(k, r, a)
    \/ Serving /\ nextRecipeId <= MaxUpdateRecipes
            /\ \E cred \in DOMAIN SeedUsers : RecipeCreate(cred, FullRecipe)
    \/ Serving /\ \E cred \in DOMAIN SeedUsers, pk \in 1..MaxUpdateRecipes, payload \in UpdatePayloads,
                     partial \in BOOLEAN :
            RecipeUpdate(cred, pk, payload, partial)

SpecUpdate == Init /\ [][NextUpdate]_vars

\* ------------------------------------------------------- the user endpoints
UserEmails ==
    {Email(l, d) : l \in {<<"a">>, <<"A">>, <<"a", "B">>}, d \in {<<"x">>, <<"X">>, <<"X", "x">>}}

UserPasswords == {"", "abcd", "abcde", "secret"}

UserCreds == {Anon} \cup (1..MaxUsers)

CreatePayloads == {[email |-> e, password |-> p, name |-> 1] : e \in UserEmails, p \in UserPasswords}

TokenPayloads == {[email |-> e, password |-> p] : e \in UserEmails, p \in UserPasswords}

MePayloads ==
    {[name |-> 2], [password |-> "abcde"], [name |-> 2, password |-> "abcd"], [password |-> ""]}

InitUser ==
    /\ users = EmptyTable
    /\ nextUserId = 1
    /\ tokens = {}
    /\ recipes = EmptyTable
    /\ nextRecipeId = 1
    /\ attrs = [k \in Kinds |-> EmptyTable]
    /\ nextAttrId = [k \in Kinds |-> 1]
    /\ history = EmptyTable
    /\ resp = NoResponse
    /\ command = CommandDone
    /\ workers = [w \in Workers |-> WorkerIdle]

NextUser ==
    \/ ClientReceives
    \/ Serving /\ nextUserId <= MaxUsers
            /\ \E payload \in CreatePayloads : UserCreate(payload)
    \/ Serving /\ \E payload \in TokenPayloads : TokenCreate(payload)
    \/ Serving /\ \E cred \in UserCreds : MeRetrieve(cred)
    \/ Serving /\ \E cred \in UserCreds, payload \in MePayloads : MeUpdate(cred, payload, TRUE)
    \/ Serving /\ \E cred \in UserCreds : MePost(cred, NoPayload)

SpecUser == InitUser /\ [][NextUser]_vars

\* ----------------------------------- two recipe creates served concurrently
\* Bodies of the concurrent creates: tag and ingredient names the user does
\* not have yet, and a body that fails validation.
RacePayloads ==
    { [title |-> 1, time_minutes |-> 1, price |-> 1, tags |-> <<2, 1>>, ingredients |-> <<1>>],
      [title |-> 2, time_minutes |-> 1, price |-> 1, tags |-> <<1>>],
      [title |-> 2, tags |-> <<1>>] }

\* Each worker serves one request; the steps of the two interleave freely.
NextRace ==
    \/ \E w \in Workers, cred \in DOMAIN SeedUsers, payload \in RacePayloads :
            WorkerAccept(w, cred, payload)
    \/ \E w \in Workers : WorkerPerformCreate(w)
    \/ \E w \in Workers : WorkerRespond(w)

SpecRace == Init /\ [][NextRace]_vars

\* ------------------------------------------- the startup readiness poll
InitWait ==
    /\ users = EmptyTable
    /\ nextUserId = 1
    /\ tokens = {}
    /\ recipes = EmptyTable
    /\ nextRecipeId = 1
    /\ attrs = [k \in Kinds |-> EmptyTable]
    /\ nextAttrId = [k \in Kinds |-> 1]
    /\ history = EmptyTable
    /\ resp = NoResponse
    /\ \E server \in ServerStates : command = CommandStart(server)
    /\ workers = [w \in Workers |-> WorkerIdle]

NextWait ==
    \/ WaitCheck
    \/ WaitSleep
    \/ \E server \in ServerStates : ServerChanges(server)

\* The command is a running process: a step it can take, it takes.
SpecWait == InitWait /\ [][NextWait]_vars /\ WF_vars(WaitCheck) /\ WF_vars(WaitSleep)

\* ====================================================================
\* Properties
\* ====================================================================
\* The primary keys of a list response, in the order returned.
ListedIds == [i \in DOMAIN resp.data |-> resp.data[i].id]

StrictlyDescending(s) == \A i, j \in DOMAIN s : i < j => s[i] > s[j]

\* C1: a recipe list answered to user U holds exactly the recipes U created
\* through the API and has not deleted, by descending id; every stored recipe
\* is owned by the user whose create request made it, whatever updates
\* followed.
C1_RecipeListOwnDescending ==
    /\ (resp.op = "list" /\ resp.kind = "recipes" /\ resp.cred # Anon) =>
          /\ resp.status = HTTP_200_OK
          /\ Range(ListedIds) =
                {id \in DOMAIN history : /\ history[id].creator = resp.cred
                                        /\ history[id].deleter # resp.cred}
          /\ StrictlyDescending(ListedIds)
    /\ \A id \in DOMAIN recipes : recipes[id].user = history[id].creator

\* A list of two recipes of the requester, a third one kept by the other user
\* after an update request that named a new owner for it.
C1_Witness ==
    /\ resp.op = "list" /\ resp.kind = "recipes" /\ resp.status = HTTP_200_OK
    /\ Len(resp.data) = 2
    /\ \E id \in DOMAIN recipes :
          recipes[id].user # resp.cred /\ recipes[id].title = 2 /\ recipes[id].user # 1

\* The owner of the row a detail request addresses (Anon: no such row).
TargetOwner(kind, pk) ==
    IF kind = "recipes"
    THEN IF pk \in DOMAIN recipes THEN recipes[pk].user ELSE Anon
    ELSE IF pk \in DOMAIN attrs[kind] THEN attrs[kind][pk].user ELSE Anon

\* This step answers a detail request of an authenticated user for a recipe,
\* tag or ingredient that another user owns.
CrossUserRequest ==
    /\ resp'.op \in {"retrieve", "update", "partial_update", "destroy", "upload_image"}
    /\ resp'.kind \in {"recipes"} \cup Kinds
    /\ resp'.cred # Anon
    /\ TargetOwner(resp'.kind, resp'.pk) \notin {Anon, resp'.cred}

\* The request's method has no handler on the route it addresses: retrieve on
\* a tag or ingredient, and POST on upload-image.
NoHandler ==
    \/ resp'.kind \in Kinds /\ resp'.op = "retrieve"
    \/ resp'.op = "upload_image" /\ resp'.method = "POST"

C3_AttrListOwnDescendingName ==
    (resp.op = "list" /\ resp.kind \in Kinds /\ resp.cred # Anon) =>
        LET own == {id \in DOMAIN attrs[resp.kind] : attrs[resp.kind][id].user = resp.cred} IN
        /\ resp.status = HTTP_200_OK
        /\ Range(ListedIds) = own
        /\ Len(ListedIds) = Cardinality(own)
        /\ \A i \in DOMAIN resp.data :
              resp.data[i].name = attrs[resp.kind][resp.data[i].id].name
        /\ \A i, j \in DOMAIN resp.data : i < j => resp.data[i].name >= resp.data[j].name

\* A list of two rows with different names, while a row of that table belongs
\* to the other user.
C3_Witness ==
    /\ resp.op = "list" /\ resp.kind \in Kinds /\ resp.status = HTTP_200_OK
    /\ Len(resp.data) = 2
    /\ resp.data[1].name > resp.data[2].name
    /\ resp.data[1].id < resp.data[2].id
    /\ \E id \in DOMAIN attrs[resp.kind] : attrs[resp.kind][id].user # resp.cred

\* The rows of table tbl that user u owns under name n.
RowsNamed(tbl, u, n) == {a \in DOMAIN tbl : tbl[a].user = u /\ tbl[a].name = n}

\* C4: a recipe create that lists tag (ingredient) names reuses the
\* requester's row of each name that exists, inserts exactly one row owned by
\* the requester for each name that does not, and attaches to the new recipe
\* exactly the rows of the listed names.
C4_CreateResolvesNestedNames ==
    [][(resp'.op = "create" /\ resp'.kind = "recipes" /\ resp'.status = HTTP_201_CREATED) =>
          \A k \in Kinds \cap DOMAIN resp'.payload :
              LET names == Range(resp'.payload[k])
                  u == resp'.cred
              IN  /\ \A n \in names :
                        IF RowsNamed(attrs[k], u, n) # {}
                        THEN RowsNamed(attrs'[k], u, n) = RowsNamed(attrs[k], u, n)
                        ELSE Cardinality(RowsNamed(attrs'[k], u, n)) = 1
                  /\ recipes'[resp'.pk][k] = UNION {RowsNamed(attrs'[k], u, n) : n \in names}]_vars

\* C5: a recipe PATCH that carries a tags (ingredients) list leaves the recipe
\* attached to exactly the requester's rows of the listed names, each name
\* having a row afterwards; an empty list leaves no association.
C5_UpdateReplacesNestedSet ==
    [][(resp'.op = "partial_update" /\ resp'.kind = "recipes" /\ resp'.status = HTTP_200_OK) =>
          \A k \in Kinds \cap DOMAIN resp'.payload :
              LET names == Range(resp'.payload[k])
                  u == resp'.cred
              IN  /\ \A n \in names : RowsNamed(attrs'[k], u, n) # {}
                  /\ recipes'[resp'.pk][k] = UNION {RowsNamed(attrs'[k], u, n) : n \in names}]_vars

\* C6: a tag (ingredient) list asked with assigned_only=1 holds exactly the
\* requester's rows attached to at least one recipe, each once.
C6_AssignedOnlyFilters ==
    (/\ resp.op = "list" /\ resp.kind \in Kinds /\ resp.cred # Anon
     /\ resp.payload.assigned_only = 1) =>
        LET assigned == {id \in DOMAIN attrs[resp.kind] :
                            /\ attrs[resp.kind][id].user = resp.cred
                            /\ id \in Assigned(resp.kind)}
        IN  /\ resp.status = HTTP_200_OK
            /\ Range(ListedIds) = assigned
            /\ Len(ListedIds) = Cardinality(assigned)

\* C7: a POST to upload-image of a recipe the requester owns answers 200 with
\* the image field and leaves the recipe referencing a stored image when the
\* upload is a decodable image; otherwise it answers 400 and the recipe's
\* image is unchanged.
C7_UploadImagePost ==
    [][(/\ resp'.op = "upload_image" /\ resp'.method = "POST"
        /\ resp'.cred # Anon /\ resp'.pk \in DOMAIN recipes
        /\ recipes[resp'.pk].user = resp'.cred) =>
          IF resp'.payload.image = ValidImage
          THEN /\ resp'.status = HTTP_200_OK
               /\ Len(resp'.data) = 1 /\ "image" \in DOMAIN resp'.data[1]
               /\ recipes'[resp'.pk].image # NoImage
          ELSE /\ resp'.status = HTTP_400_BAD_REQUEST
               /\ recipes'[resp'.pk].image = recipes[resp'.pk].image]_vars

\* The endpoints that require authentication.
ProtectedKinds == Kinds \cup {"recipes", "me"}

\* C8: a request to a recipe, tag, ingredient or me endpoint that carries no
\* valid credential is answered 401 with no data, and nothing stored changes.
C8_UnauthenticatedRejected ==
    [][(/\ resp'.op # "none" /\ resp'.kind \in ProtectedKinds
        /\ Authenticate(resp'.cred) = Anon) =>
          /\ resp'.status = HTTP_401_UNAUTHORIZED
          /\ resp'.data = <<>>
          /\ UNCHANGED <<dbRecipes, dbAttrs, dbUsers>>]_vars

\* An anonymous delete of a stored tag or ingredient was answered 401 and the
\* row is still there, next to a stored recipe.
C8_Witness ==
    /\ resp.op = "destroy" /\ resp.kind \in Kinds /\ resp.cred = Anon
    /\ resp.status = HTTP_401_UNAUTHORIZED
    /\ resp.pk \in DOMAIN attrs[resp.kind]
    /\ recipes # EmptyTable

\* C9: a registration whose email is already stored, or whose password is
\* shorter than MinPasswordLength, answers 400 and leaves the users as they
\* were; any other registration answers 201 without the password and adds one
\* user whose password check accepts the submitted password.
C9_RegistrationOutcome ==
    [][(resp'.op = "create" /\ resp'.kind = "user") =>
          LET p == resp'.payload
              rejected == \/ \E u \in DOMAIN users : users[u].email = p.email
                          \/ Len(p.password) < MinPasswordLength
          IN  IF rejected
              THEN resp'.status = HTTP_400_BAD_REQUEST /\ users' = users
              ELSE /\ resp'.status = HTTP_201_CREATED
                   /\ Len(resp'.data) = 1 /\ "password" \notin DOMAIN resp'.data[1]
                   /\ \E id \in DOMAIN users' \ DOMAIN users :
                         /\ DOMAIN users' = DOMAIN users \cup {id}
                         /\ check_password(p.password, users'[id].password)
                   /\ \A u \in DOMAIN users : users'[u] = users[u]]_vars

\* C10: a token request answers 200 with a token exactly when a stored user
\* has the submitted email and a password that checks; otherwise it answers
\* 400 with no token and issues none, and the error depends only on whether
\* the password was blank, not on which credential failed to match.
C10_TokenIffAuthenticates ==
    [][(resp'.op = "token") =>
          LET p == resp'.payload
              ok == \E u \in DOMAIN users :
                        /\ users[u].email = p.email
                        /\ users[u].password = make_password(p.password)
          IN  /\ (resp'.status = HTTP_200_OK) <=> ok
              /\ ok => /\ Len(resp'.data) = 1 /\ "token" \in DOMAIN resp'.data[1]
                       /\ resp'.data[1].token \in tokens'
                       /\ users[resp'.data[1].token].email = p.email
              /\ ~ok => /\ resp'.status = HTTP_400_BAD_REQUEST
                        /\ resp'.data = <<>>
                        /\ tokens' = tokens
                        /\ resp'.errors = IF p.password = "" THEN {"password"}
                                          ELSE {"non_field_errors"}]_vars

\* A token was issued to one of two registered users.
C10_Witness ==
    /\ resp.op = "token" /\ resp.status = HTTP_200_OK
    /\ Cardinality(DOMAIN users) = 2
    /\ resp.pk \in tokens

\* C11: a POST to the me endpoint and a POST to the tag or ingredient list by
\* an authenticated user are answered 405 and change nothing stored; any
\* request that leaves the tag or ingredient tables with a new row is a recipe
\* create or a recipe update.
C11_NoSuchMethodRejected ==
    [][/\ (/\ resp'.method = "POST" /\ resp'.op = "create"
           /\ resp'.kind \in Kinds \cup {"me"}
           /\ Authenticate(resp'.cred) # Anon) =>
             /\ resp'.status = HTTP_405_METHOD_NOT_ALLOWED
             /\ resp'.data = <<>>
             /\ UNCHANGED <<dbRecipes, dbAttrs, dbUsers>>
       /\ (/\ resp'.op # "none"
           /\ \E k \in Kinds : DOMAIN attrs'[k] \ DOMAIN attrs[k] # {}) =>
             /\ resp'.kind = "recipes"
             /\ resp'.op \in {"create", "update", "partial_update"}]_vars

\* A POST of a tag or ingredient name by a user who owns a row of that table
\* was answered 405, the table still holding that one row.
C11_Witness ==
    /\ resp.op = "create" /\ resp.kind \in Kinds /\ resp.cred # Anon
    /\ resp.status = HTTP_405_METHOD_NOT_ALLOWED
    /\ "name" \in DOMAIN resp.payload
    /\ \E id \in DOMAIN attrs[resp.kind] : attrs[resp.kind][id].user = resp.cred
    /\ Cardinality(DOMAIN attrs[resp.kind]) = 1

\* The position of the last "@" of an address.
AtSign(e) == CHOOSE i \in DOMAIN e : e[i] = "@" /\ \A j \in DOMAIN e : e[j] = "@" => j <= i

\* C12: the email stored for a created user is the submitted one with every
\* character after the @ lowercased and every character up to the @ as given;
\* the response shows the stored address.
C12_EmailDomainLowercased ==
    [][(resp'.op = "create" /\ resp'.kind = "user" /\ resp'.status = HTTP_201_CREATED) =>
          LET given == resp'.payload.email
              stored == users'[resp'.pk].email
          IN  /\ resp'.pk \notin DOMAIN users
              /\ Len(stored) = Len(given)
              /\ \A i \in DOMAIN given :
                    stored[i] = IF i > AtSign(given) THEN LowerChar(given[i]) ELSE given[i]
              /\ resp'.data[1].email = stored]_vars

\* A user registered with upper case on both sides of the @: the stored
\* address differs from the submitted one and keeps an upper-case letter.
C12_Witness ==
    /\ resp.op = "create" /\ resp.kind = "user" /\ resp.status = HTTP_201_CREATED
    /\ resp.payload.email = Email(<<"a", "B">>, <<"X", "x">>)
    /\ users[resp.pk].email = Email(<<"a", "B">>, <<"x", "x">>)

\* C13: wait_for_db finishes only by a check that succeeds and finishes at
\* that check; a failed check is followed by a sleep and the sleep by another
\* check; every check is of the 'default' database, and a run whose first
\* check succeeded made one check; if the database stays available from some
\* moment on, the command terminates.
C13_WaitForDbPollsUntilReady ==
    /\ [][/\ (command.pc = "check" /\ command'.pc # "check") =>
                /\ command'.pc = IF command.server = "up" THEN "done" ELSE "sleep"
                /\ command'.db_up = (command.server = "up")
          /\ (command.pc = "sleep" /\ command'.pc # "sleep") => command'.pc = "check"
          /\ command.pc = "done" => command'.pc = "done"]_vars
    /\ [](command.checks > 0 => command.databases = {"default"})
    /\ []((command.pc = "done" /\ command.error = "none") => command.checks = 1)
    /\ (<>[](command.server = "up")) => <>(command.pc = "done")

\* The command finished after failed checks of both kinds.
C13_Witness ==
    /\ command.pc = "done" /\ command.db_up
    /\ command.checks >= 3
    /\ command.error = "OperationalError"

\* C14: a response of status 400 carries error detail, keyed by fields of the
\* request's serializer that the payload gets wrong or lacks, and no echo of
\* the submitted input.
C14_BadRequestCarriesFieldErrors ==
    (resp.status = HTTP_400_BAD_REQUEST) =>
        /\ resp.errors # {}
        /\ resp.data = <<>>
        /\ resp.errors \subseteq
              {"non_field_errors"} \cup RecipeDetailSerializerFields
                  \cup RecipeImageSerializerFields \cup AttrSerializerFields
                  \cup UserSerializerFields

\* C15: each item of a recipe list has the fields id, title, time_minutes,
\* price and link; the body of a recipe retrieve, create or update has these
\* and description; every field shown is the stored one, and the id is the
\* one the database gave the row, whatever id the payload names.
C15_ListLightDetailFull ==
    [][(/\ resp'.kind = "recipes"
        /\ resp'.op \in {"list", "retrieve", "create", "update", "partial_update"}
        /\ resp'.status \in {HTTP_200_OK, HTTP_201_CREATED}) =>
          LET light == {"id", "title", "time_minutes", "price", "link"}
              shown == IF resp'.op = "list" THEN light ELSE light \cup {"description"}
          IN  /\ \A i \in DOMAIN resp'.data :
                    /\ DOMAIN resp'.data[i] = shown
                    /\ resp'.data[i].id \in DOMAIN recipes'
                    /\ \A f \in shown \ {"id"} :
                          resp'.data[i][f] = recipes'[resp'.data[i].id][f]
              /\ resp'.op # "list" => Len(resp'.data) = 1 /\ resp'.data[1].id = resp'.pk
              /\ resp'.op = "create" =>
                    resp'.pk = nextRecipeId /\ DOMAIN recipes' = DOMAIN recipes \cup {resp'.pk}
              /\ resp'.op \in {"update", "partial_update"} => DOMAIN recipes' = DOMAIN recipes]_vars

\* A list of two recipes, one of them written by a request that named
\* another id.
C15_Witness ==
    /\ resp.op = "list" /\ resp.kind = "recipes" /\ resp.status = HTTP_200_OK
    /\ Len(resp.data) = 2
    /\ \E i \in DOMAIN resp.data : resp.data[i].title = 2 /\ resp.data[i].id # 3
    /\ \A i \in DOMAIN resp.data : "description" \notin DOMAIN resp.data[i]

\* No user has two rows of one name in tbl.
UniquePerUser(tbl) ==
    \A a, b \in DOMAIN tbl :
        (a # b /\ tbl[a].user = tbl[b].user) => tbl[a].name # tbl[b].name

\* This step answers a tag or ingredient update that found the row.
UpdateReachedRow ==
    /\ resp'.kind \in Kinds
    /\ resp'.op \in {"update", "partial_update"}
    /\ resp'.status \notin {HTTP_401_UNAUTHORIZED, HTTP_404_NOT_FOUND}

\* C16 (as stated): sequential API requests keep tags and ingredients unique
\* by (user, name): no request leads from tables that are unique to tables
\* that are not.
C16_UniqueByUserAndName ==
    [][(resp'.op # "none" /\ \A k \in Kinds : UniquePerUser(attrs[k])) =>
          \A k \in Kinds : UniquePerUser(attrs'[k])]_vars

\* C16 (amended): a request other than a tag or ingredient update gives no
\* user a second row of any name; an update that carries a name sets the name
\* of the addressed row, whatever the names of the user's other rows, and
\* leaves every other row as it was.
C16_OnlyRenameBreaksUniqueness ==
    [][(resp'.op # "none") =>
          /\ ~(UpdateReachedRow /\ resp'.status = HTTP_200_OK) =>
                \A k \in Kinds, u \in DOMAIN users, n \in Names :
                    \/ RowsNamed(attrs'[k], u, n) \subseteq RowsNamed(attrs[k], u, n)
                    \/ Cardinality(RowsNamed(attrs'[k], u, n)) = 1
          /\ (UpdateReachedRow /\ "name" \in DOMAIN resp'.payload) =>
                /\ resp'.status = HTTP_200_OK
                /\ attrs' = [attrs EXCEPT ![resp'.kind][resp'.pk].name = resp'.payload.name]
          /\ (UpdateReachedRow /\ "name" \notin DOMAIN resp'.payload) => attrs' = attrs]_vars

\* A rename left its user with two rows of the submitted name.
C16_Witness ==
    /\ resp.kind \in Kinds /\ resp.op \in {"update", "partial_update"}
    /\ resp.status = HTTP_200_OK
    /\ "name" \in DOMAIN resp.payload
    /\ \E other \in DOMAIN attrs[resp.kind] \ {resp.pk} :
          /\ attrs[resp.kind][other].user = attrs[resp.kind][resp.pk].user
          /\ attrs[resp.kind][other].name = attrs[resp.kind][resp.pk].name

\* C17: two recipe creates of one user served concurrently, both naming a tag
\* (ingredient) the user does not have, each run get-or-create on the name:
\* once both are answered 201 the user has a row of that name, one if a
\* lookup came after the other request's insert, two if both lookups came
\* first.
C17_ConcurrentGetOrCreate ==
    (/\ \A w \in Workers : workers[w].pc = "done" /\ workers[w].status = HTTP_201_CREATED
     /\ \A v, w \in Workers : workers[v].user = workers[w].user) =>
        \A k \in Kinds :
            LET named == {n \in Names : \A w \in Workers :
                             /\ k \in DOMAIN workers[w].payload
                             /\ n \in Range(workers[w].payload[k])}
            IN  \A n \in named :
                    Cardinality(RowsNamed(attrs[k], workers[1].user, n)) \in {1, 2}

\* C18: a profile update leaves every other user's row, the set of users and
\* the requester's email as they were; a password it carries and accepts is
\* stored hashed, so that the password check accepts it and no other
\* password; without a password, with an empty one, or when the request is
\* rejected, the stored password is the one from before.
C18_ProfileUpdateOwnRecordOnly ==
    [][(resp'.kind = "me" /\ resp'.op \in {"update", "partial_update"}) =>
          LET u == Authenticate(resp'.cred)
              p == resp'.payload
              ok == resp'.status = HTTP_200_OK
          IN  /\ DOMAIN users' = DOMAIN users
              /\ tokens' = tokens
              /\ \A v \in DOMAIN users \ {u} : users'[v] = users[v]
              /\ u # Anon =>
                    /\ users'[u].email = users[u].email
                    /\ users'[u].name = IF ok /\ "name" \in DOMAIN p THEN p.name
                                        ELSE users[u].name
                    /\ IF ok /\ "password" \in DOMAIN p /\ p.password # ""
                       THEN /\ users'[u].password # p.password
                            /\ \A q \in UserPasswords :
                                  check_password(q, users'[u].password) <=> q = p.password
                       ELSE users'[u].password = users[u].password]_vars

\* A user changed the password: the new one checks, the one registered with
\* does not, and the other user's row is as registered.
C18_Witness ==
    /\ resp.kind = "me" /\ resp.op = "partial_update" /\ resp.status = HTTP_200_OK
    /\ "password" \in DOMAIN resp.payload
    /\ check_password(resp.payload.password, users[resp.pk].password)
    /\ ~check_password("secret", users[resp.pk].password)
    /\ \E v \in DOMAIN users \ {resp.pk} : check_password("secret", users[v].password)

\* The scalar fields of a recipe that its serializers write.
RecipeScalarFields == {"title", "time_minutes", "price", "link", "description"}

====
